---- MODULE Spec2Model ----
(***************************************************************************)
(* Headroom sidecar (src/headroom-sidecar/server.py): the content-         *)
(* addressable CCR store, the fallback compressor, the /compress           *)
(* orchestrator and the /ccr/retrieve and /health handlers.                *)
(*                                                                         *)
(* Python values are tagged records:                                       *)
(*   [t |-> "str",  pre, pad]  the text pre followed by pad filler         *)
(*                             characters FILL (long strings are kept as   *)
(*                             a short head and a run length)              *)
(*   [t |-> "list", items]     a list                                      *)
(*   [t |-> "dict", d]         a dict, d a function from its keys          *)
(*   [t |-> "none"]            None                                        *)
(* A serialized text is [pre, pad, post]: pre, pad fillers, post.          *)
(***************************************************************************)
EXTENDS Integers, Sequences, FiniteSets, TLC

\* ------------------------------------------------------------------------
\* Bounds of the model
\* ------------------------------------------------------------------------
MaxRequests == 2
MaxRetrievals == 1
MaxEpochs == 1

\* ------------------------------------------------------------------------
\* Program constants
\* ------------------------------------------------------------------------
CcrTtl == 300
MinTokens == 200
OffloadThreshold == 2000
HashLen == 12
DefaultMaxResults == 20

\* ------------------------------------------------------------------------
\* Python values
\* ------------------------------------------------------------------------
FILL == "~"

S(pre, pad) == [t |-> "str", pre |-> pre, pad |-> pad]

L(items) == [t |-> "list", items |-> items]

D(d) == [t |-> "dict", d |-> d]

NoneV == [t |-> "none"]

IsStr(v) == v.t = "str"

IsList(v) == v.t = "list"

IsDict(v) == v.t = "dict"

\* len(s) of a str
StrLen(s) == Len(s.pre) + s.pad

\* dict.get(key, default)
Get(v, key, default) == IF key \in DOMAIN v.d THEN v.d[key] ELSE default

\* ------------------------------------------------------------------------
\* Arithmetic helpers
\* ------------------------------------------------------------------------
RECURSIVE SumSeq(_)
SumSeq(s) == IF s = <<>> THEN 0 ELSE Head(s) + SumSeq(Tail(s))

RECURSIVE SumSet(_, _)
SumSet(f, keys) ==
  IF keys = {} THEN 0
  ELSE LET k == CHOOSE k \in keys : TRUE
       IN f[k] + SumSet(f, keys \ {k})

DigitChars == <<"0", "1", "2", "3", "4", "5", "6", "7", "8", "9">>

\* str(n) of an integer n >= 0, as a sequence of characters
RECURSIVE Decimal(_)
Decimal(n) ==
  IF n < 10 THEN <<DigitChars[n + 1]>>
  ELSE Append(Decimal(n \div 10), DigitChars[(n % 10) + 1])

\* ------------------------------------------------------------------------
\* str.lower() and substring search
\* ------------------------------------------------------------------------
LowerTable == [E |-> "e", R |-> "r", O |-> "o", K |-> "k", W |-> "w", A |-> "a"]

LowerChar(c) == IF c \in DOMAIN LowerTable THEN LowerTable[c] ELSE c

LowerSeq(s) == [i \in 1..Len(s) |-> LowerChar(s[i])]

\* q in s, for sequences of characters
SeqContains(s, q) ==
  \E i \in 0..(Len(s) - Len(q)) : \A j \in 1..Len(q) : s[i + j] = q[j]

\* q in text, for a serialized text and a query q without filler characters
TextContains(text, q) ==
  IF text.pad = 0 THEN SeqContains(text.pre \o text.post, q)
  ELSE SeqContains(text.pre, q) \/ SeqContains(text.post, q)

TextLower(text) ==
  [pre |-> LowerSeq(text.pre), pad |-> text.pad, post |-> LowerSeq(text.post)]

TextLen(text) == Len(text.pre) + text.pad + Len(text.post)

\* the text of a str value
StrText(s) == [pre |-> s.pre, pad |-> s.pad, post |-> <<>>]

\* ------------------------------------------------------------------------
\* json.dumps
\* ------------------------------------------------------------------------
QUOTE == "\""

BACKSLASH == "\\"

\* the JSON escape of one character
EscapeChar(c) ==
  IF c = QUOTE THEN <<BACKSLASH, QUOTE>>
  ELSE IF c = BACKSLASH THEN <<BACKSLASH, BACKSLASH>>
  ELSE <<c>>

RECURSIVE EscapeSeq(_)
EscapeSeq(s) ==
  IF s = <<>> THEN <<>> ELSE EscapeChar(Head(s)) \o EscapeSeq(Tail(s))

\* the length of the JSON escape of a sequence of characters
EscapeLen(s) ==
  Len(s) + Cardinality({i \in 1..Len(s) : s[i] \in {QUOTE, BACKSLASH}})

\* json.dumps(s) of a str: quoted and escaped
DumpsStr(s) ==
  [pre |-> <<QUOTE>> \o EscapeSeq(s.pre), pad |-> s.pad, post |-> <<QUOTE>>]

\* json.dumps(v) as a text, for a str, None, or a list of values whose
\* strings are short (no filler run)
RECURSIVE DumpsFlat(_)
DumpsFlat(v) ==
  IF v.t = "str" THEN <<QUOTE>> \o EscapeSeq(v.pre) \o <<QUOTE>>
  ELSE IF v.t = "none" THEN <<"n", "u", "l", "l">>
  ELSE LET n == Len(v.items)
           RECURSIVE Join(_)
           Join(i) ==
             IF i > n THEN <<>>
             ELSE (IF i > 1 THEN <<",", " ">> ELSE <<>>)
                  \o DumpsFlat(v.items[i]) \o Join(i + 1)
       IN <<"[">> \o Join(1) \o <<"]">>

Dumps(v) ==
  IF v.t = "str" THEN DumpsStr(v)
  ELSE [pre |-> DumpsFlat(v), pad |-> 0, post |-> <<>>]

\* len(json.dumps(v)) with the default separators ", " and ": "
RECURSIVE DumpsLen(_)
DumpsLen(v) ==
  IF v.t = "str" THEN 2 + EscapeLen(v.pre) + v.pad
  ELSE IF v.t = "none" THEN 4
  ELSE IF v.t = "list" THEN
    LET n == Len(v.items)
    IN 2 + SumSeq([i \in 1..n |-> DumpsLen(v.items[i])])
         + (IF n > 1 THEN 2 * (n - 1) ELSE 0)
  ELSE
    LET keys == DOMAIN v.d
        n == Cardinality(keys)
        item == [k \in keys |-> Len(k) + 2 + 2 + DumpsLen(v.d[k])]
    IN 2 + SumSet(item, keys) + (IF n > 1 THEN 2 * (n - 1) ELSE 0)

\* json.dumps cannot serialize the value (it holds an object that is not JSON)
RECURSIVE Unserializable(_)
Unserializable(v) ==
  IF v.t = "object" THEN TRUE
  ELSE IF v.t = "list" THEN \E i \in 1..Len(v.items) : Unserializable(v.items[i])
  ELSE IF v.t = "dict" THEN \E k \in DOMAIN v.d : Unserializable(v.d[k])
  ELSE FALSE

estimate_tokens(data) ==
  IF data.t = "str" THEN StrLen(data) \div 4 ELSE DumpsLen(data) \div 4

\* ------------------------------------------------------------------------
\* generate_hash: the first 12 hex digits of a digest of the key-sorted
\* serialization
\* ------------------------------------------------------------------------
HexChars ==
  <<"0", "1", "2", "3", "4", "5", "6", "7", "8", "9", "a", "b", "c", "d", "e", "f">>

CharCodes ==
  [e |-> 101, E |-> 69, r |-> 114, R |-> 82, o |-> 111, O |-> 79,
   k |-> 107, K |-> 75, w |-> 119, W |-> 87, a |-> 97, A |-> 65]

CharCode(c) ==
  IF c \in DOMAIN CharCodes THEN CharCodes[c]
  ELSE IF c = QUOTE THEN 34
  ELSE IF c = BACKSLASH THEN 92
  ELSE 32

\* the weight of position j in a digest with multiplier mult
Weight(j, mult) == (j * j * mult + 7 * j + 13) % 131071

\* the sum of the weighted character codes of chars[lo..hi], the first at
\* position base + lo, modulo 2^24
RECURSIVE DigestRange(_, _, _, _, _)
DigestRange(chars, lo, hi, base, mult) ==
  IF lo > hi THEN 0
  ELSE IF lo = hi THEN CharCode(chars[lo]) * Weight(base + lo, mult)
  ELSE LET mid == (lo + hi) \div 2
       IN (DigestRange(chars, lo, mid, base, mult)
           + DigestRange(chars, mid + 1, hi, base, mult)) % 16777216

\* a 24-bit digest of a serialized text with multiplier mult; the filler run
\* enters as its length
Digest(text, mult) ==
  (DigestRange(text.pre, 1, Len(text.pre), 0, mult)
   + (text.pad % 131071) * Weight(Len(text.pre) + 1, mult)
   + DigestRange(text.post, 1, Len(text.post), Len(text.pre) + 1, mult)) % 16777216

\* the hex digit of weight 16^i of n
HexDigit(n, i) == HexChars[((n \div (16 ^ i)) % 16) + 1]

\* hexdigest()[:12] of the serialization: two 24-bit digests stand for the
\* first 48 bits of the SHA-256 digest
generate_hash(content) ==
  LET text == Dumps(content)
      hi == Digest(text, 31)
      lo == Digest(text, 17)
  IN [i \in 1..HashLen |->
        IF i <= 6 THEN HexDigit(hi, 6 - i) ELSE HexDigit(lo, HashLen - i)]

\* ------------------------------------------------------------------------
\* String literals of the program
\* ------------------------------------------------------------------------
USER == S(<<"u", "s", "e", "r">>, 0)

ASSISTANT == S(<<"a", "s", "s", "i", "s", "t", "a", "n", "t">>, 0)

TOOL_RESULT == S(<<"t", "o", "o", "l", "_", "r", "e", "s", "u", "l", "t">>, 0)

TEXT == S(<<"t", "e", "x", "t">>, 0)

UNKNOWN == S(<<"u", "n", "k", "n", "o", "w", "n">>, 0)

EMPTY == S(<<>>, 0)

BASIC_CCR == S(<<"b", "a", "s", "i", "c", "_", "c", "c", "r">>, 0)

BelowHead ==
  <<"B", "e", "l", "o", "w", " ", "t", "h", "r", "e", "s", "h", "o", "l", "d",
    " ", "(">>

HashNotFoundHead == <<"H", "a", "s", "h", " ">>

HashNotFoundTail ==
  <<" ", "n", "o", "t", " ", "f", "o", "u", "n", "d", " ", "o", "r", " ", "e",
    "x", "p", "i", "r", "e", "d">>

QUERY_NOT_FOUND ==
  S(<<"Q", "u", "e", "r", "y", " ", "n", "o", "t", " ", "f", "o", "u", "n", "d",
      " ", "i", "n", " ", "c", "o", "n", "t", "e", "n", "t">>, 0)

RefHead == <<"[", "C", "C", "R", ":">>

RefMid ==
  <<"]", " ", "C", "o", "n", "t", "e", "n", "t", " ", "c", "o", "m", "p", "r",
    "e", "s", "s", "e", "d", " ", "(">>

RefTail ==
  <<" ", "c", "h", "a", "r", "s", ")", ".", " ", "U", "s", "e", " ", "c", "c",
    "r", "_", "r", "e", "t", "r", "i", "e", "v", "e", " ", "t", "o", " ", "a",
    "c", "c", "e", "s", "s", " ", "f", "u", "l", "l", " ", "c", "o", "n", "t",
    "e", "n", "t", ".">>

\* faulty variant: the reference is followed by the content it stands for
ReferenceWithContent(hash_key, content) ==
  S(RefHead \o hash_key \o RefMid \o Decimal(StrLen(content)) \o RefTail
      \o content.pre, content.pad)

\* f"[CCR:{hash_key}] Content compressed ({len(content)} chars). Use ..."
Reference(hash_key, content) ==
  S(RefHead \o hash_key \o RefMid \o Decimal(StrLen(content)) \o RefTail, 0)

\* ------------------------------------------------------------------------
\* cleanup_expired_ccr
\* ------------------------------------------------------------------------
\* faulty variant: an entry is kept one second too long
ExpiredLate(store, t) == {k \in DOMAIN store : t - store[k].timestamp > CcrTtl + 1}

Expired(store, t) == {k \in DOMAIN store : t - store[k].timestamp > CcrTtl}

\* faulty variant: the sweep empties the store
cleanup_every_ccr(store, t) == [k \in {} |-> store[k]]

cleanup_expired_ccr(store, t) ==
  [k \in (DOMAIN store) \ Expired(store, t) |-> store[k]]

\* del ccr_store[k]: the keys that are left keep their order
KeysLeft(keys, store) == SelectSeq(keys, LAMBDA k : k \in DOMAIN store)

\* ------------------------------------------------------------------------
\* basic_compress
\* ------------------------------------------------------------------------
\* faulty variant: the entry is filed under the address of its label
StorePutByLabel(store, hash_key, content, t, block) ==
  LET key == generate_hash(Get(block, "tool_use_id", UNKNOWN))
  IN [k \in (DOMAIN store) \cup {key} |->
        IF k = key
        THEN [content |-> content, timestamp |-> t,
              tool_name |-> Get(block, "tool_use_id", UNKNOWN)]
        ELSE store[k]]

\* variant: an entry that exists is left as it is
StorePutIfAbsent(store, hash_key, content, t, block) ==
  IF hash_key \in DOMAIN store THEN store
  ELSE [k \in (DOMAIN store) \cup {hash_key} |->
          IF k = hash_key
          THEN [content |-> content, timestamp |-> t,
                tool_name |-> Get(block, "tool_use_id", UNKNOWN)]
          ELSE store[k]]

\* ccr_store[hash_key] = {...}
StorePut(store, hash_key, content, t, block) ==
  [k \in (DOMAIN store) \cup {hash_key} |->
     IF k = hash_key
     THEN [content |-> content, timestamp |-> t,
           tool_name |-> Get(block, "tool_use_id", UNKNOWN)]
     ELSE store[k]]

\* faulty variant: a content of exactly the threshold is offloaded too
OffloadableAtThreshold(block) ==
  /\ Get(block, "type", NoneV) = TOOL_RESULT
  /\ IsStr(Get(block, "content", EMPTY))
  /\ StrLen(Get(block, "content", EMPTY)) >= OffloadThreshold

\* the block is a tool_result whose content is a str longer than the threshold
Offloadable(block) ==
  /\ Get(block, "type", NoneV) = TOOL_RESULT
  /\ IsStr(Get(block, "content", EMPTY))
  /\ StrLen(Get(block, "content", EMPTY)) > OffloadThreshold

\* faulty variant: the copy is made and the original block is kept
ReplaceContentKept(block, ref) == block

\* block.copy(); block["content"] = reference
ReplaceContent(block, ref) ==
  D([k \in (DOMAIN block.d) \cup {"content"} |->
       IF k = "content" THEN ref ELSE block.d[k]])

\* one iteration of the loop over the blocks of a message; acc carries the
\* store, the keys the run has added to it (in the order of their insertion),
\* the ccr_stores counter, the blocks written so far and whether an
\* exception was raised (block.get on a block that is not a mapping)
\* faulty variant: the counter moves only when the address was absent
OffloadBlockCountNew(acc, block, t, content, hash_key) ==
  [store |-> StorePut(acc.store, hash_key, content, t, block),
   ccr_stores |-> IF hash_key \in DOMAIN acc.store THEN acc.ccr_stores
                  ELSE acc.ccr_stores + 1,
   raised |-> FALSE,
   inserted |-> IF hash_key \in DOMAIN acc.store THEN acc.inserted
                ELSE Append(acc.inserted, hash_key),
   out |-> Append(acc.out, ReplaceContent(block, Reference(hash_key, content)))]

\* lines 176-186: the block's content is stored under hash_key and the block
\* is written with the reference in its place
OffloadBlock(acc, block, t, content, hash_key) ==
  [store |-> StorePut(acc.store, hash_key, content, t, block),
   ccr_stores |-> acc.ccr_stores + 1,
   raised |-> FALSE,
   inserted |-> IF hash_key \in DOMAIN acc.store THEN acc.inserted
                ELSE Append(acc.inserted, hash_key),
   out |-> Append(acc.out, ReplaceContent(block, Reference(hash_key, content)))]

\* faulty variant: an address that is in the store already makes the write
\* raise
CompressBlockExclusive(acc, block, t) ==
  IF acc.raised THEN acc
  ELSE IF ~IsDict(block) THEN [acc EXCEPT !.raised = TRUE]
  ELSE IF Offloadable(block) THEN
    IF generate_hash(Get(block, "content", EMPTY)) \in DOMAIN acc.store
    THEN [acc EXCEPT !.raised = TRUE]
    ELSE OffloadBlock(acc, block, t, Get(block, "content", EMPTY),
                      generate_hash(Get(block, "content", EMPTY)))
  ELSE [acc EXCEPT !.out = Append(acc.out, block)]

\* lines 170-187 for one block
CompressBlock(acc, block, t) ==
  IF acc.raised THEN acc
  ELSE IF ~IsDict(block) THEN [acc EXCEPT !.raised = TRUE]
  ELSE IF Offloadable(block) THEN
    OffloadBlock(acc, block, t, Get(block, "content", EMPTY),
                 generate_hash(Get(block, "content", EMPTY)))
  ELSE [acc EXCEPT !.out = Append(acc.out, block)]

RECURSIVE CompressBlocks(_, _, _)
CompressBlocks(acc, blocks, t) ==
  IF blocks = <<>> THEN acc
  ELSE CompressBlocks(CompressBlock(acc, Head(blocks), t), Tail(blocks), t)

\* one iteration of the loop over the messages
\* lines 165-166 and 188-189: the copy of the message with the blocks that
\* the inner loop wrote, appended to the messages written so far
AppendCompressed(acc, msg, inner) ==
  [store |-> inner.store, ccr_stores |-> inner.ccr_stores,
   raised |-> inner.raised,
   inserted |-> inner.inserted,
   out |-> IF inner.raised THEN acc.out
           ELSE Append(acc.out,
                       D([k \in DOMAIN msg.d |->
                            IF k = "content" THEN L(inner.out) ELSE msg.d[k]]))]

CompressMessage(acc, msg, t) ==
  IF acc.raised THEN acc
  ELSE IF Get(msg, "role", NoneV) = USER /\ IsList(Get(msg, "content", NoneV)) THEN
    AppendCompressed(acc, msg,
                     CompressBlocks([store |-> acc.store,
                                     ccr_stores |-> acc.ccr_stores,
                                     inserted |-> acc.inserted,
                                     raised |-> FALSE, out |-> <<>>],
                                    msg.d["content"].items, t))
  ELSE [acc EXCEPT !.out = Append(acc.out, msg)]

RECURSIVE CompressMessages(_, _, _)
CompressMessages(acc, msgs, t) ==
  IF msgs = <<>> THEN acc
  ELSE CompressMessages(CompressMessage(acc, Head(msgs), t), Tail(msgs), t)

\* round(x * 100, 1) of x = 1 - after / before, in tenths of a percent
\* (ties round away from the even digit are not distinguished)
SavingsPercent(before, after) ==
  IF before > 0
  THEN IF after <= before
       THEN (2000 * (before - after) + before) \div (2 * before)
       ELSE 0 - ((2000 * (after - before) + before) \div (2 * before))
  ELSE 0

\* faulty variant: the two token counts change places
RunStatsSwapped(before, after, transforms, latency) ==
  [tokens_before |-> after,
   tokens_after |-> before,
   tokens_saved |-> before - after,
   savings_percent |-> SavingsPercent(before, after),
   transforms_applied |-> transforms,
   latency_ms |-> latency]

\* the stats mapping of a compression that ran
RunStats(before, after, transforms, latency) ==
  [tokens_before |-> before,
   tokens_after |-> after,
   tokens_saved |-> before - after,
   savings_percent |-> SavingsPercent(before, after),
   transforms_applied |-> transforms,
   latency_ms |-> latency]

\* basic_compress(messages, tools) run at time t on the given store: the
\* returned mapping, the store and counter it leaves, and whether it raised
\* lines 193-207: the mapping basic_compress returns
BasicResult(run, tools, tokens_before, tokens_after) ==
  [raised |-> run.raised,
   store |-> run.store,
   inserted |-> run.inserted,
   ccr_stores |-> run.ccr_stores,
   messages |-> L(run.out),
   tools |-> tools,
   compressed |-> tokens_after < tokens_before,
   stats |-> RunStats(tokens_before, tokens_after,
                      IF tokens_after < tokens_before THEN <<BASIC_CCR>> ELSE <<>>,
                      0)]

\* lines 161 and 191: the token counts of the input and of the messages written
BasicCounts(messages, tools, run) ==
  BasicResult(run, tools, estimate_tokens(messages), estimate_tokens(L(run.out)))

basic_compress(messages, tools, store, ccr_stores, t) ==
  BasicCounts(messages, tools,
              CompressMessages([store |-> store, ccr_stores |-> ccr_stores,
                                inserted |-> <<>>,
                                raised |-> FALSE, out |-> <<>>],
                               messages.items, t))

\* ------------------------------------------------------------------------
\* basic_compress on objects with identity. The messages that the handler
\* passes to basic_compress are mutable objects: the list of messages, each
\* message, each list of blocks and each block is an object of a heap (a
\* sequence of objects; the identity of an object is its index). A slot of
\* a list or of a dict holds a reference to an object or a value that
\* basic_compress never writes into (a str, None, the value of a field of a
\* block). msg.copy() and block.copy() make a new dict with the same slots;
\* block["content"] = ... writes a slot of the dict the variable refers to.
\* ------------------------------------------------------------------------
Ref(id) == [t |-> "ref", id |-> id]

IsRef(slot) == slot.t = "ref"

\* the heap with one more object, and the reference to it
New(heap, object) == [heap |-> Append(heap, object), slot |-> Ref(Len(heap) + 1)]

\* x.copy() of a dict
DictCopy(heap, id) == New(heap, heap[id])

\* x[key] = slot
DictSet(heap, id, key, slot) ==
  [heap EXCEPT ![id].d = [k \in (DOMAIN @) \cup {key} |->
                            IF k = key THEN slot ELSE @[k]]]

\* x.append(slot)
ListAppend(heap, id, slot) == [heap EXCEPT ![id].items = Append(@, slot)]

\* the value an object graph holds
RECURSIVE Deref(_, _)
Deref(heap, slot) ==
  IF ~IsRef(slot) THEN slot
  ELSE IF heap[slot.id].t = "list"
  THEN L([i \in 1..Len(heap[slot.id].items) |-> Deref(heap, heap[slot.id].items[i])])
  ELSE D([k \in DOMAIN heap[slot.id].d |-> Deref(heap, heap[slot.id].d[k])])

\* the objects of a request as the parser builds them: acc holds the heap
\* and the slots of the items put on it so far
Placed(acc, made) == [heap |-> made.heap, slots |-> Append(acc.slots, made.slot)]

PlaceBlock(heap, block) ==
  IF IsDict(block) THEN New(heap, block) ELSE [heap |-> heap, slot |-> block]

RECURSIVE PlaceBlocks(_, _)
PlaceBlocks(acc, blocks) ==
  IF blocks = <<>> THEN acc
  ELSE PlaceBlocks(Placed(acc, PlaceBlock(acc.heap, Head(blocks))), Tail(blocks))

ListOf(acc) == New(acc.heap, [t |-> "list", items |-> acc.slots])

\* a message whose content is a list: the list object, then the dict
MessageOf(msg, content) ==
  New(content.heap,
      [t |-> "dict",
       d |-> [k \in DOMAIN msg.d |-> IF k = "content" THEN content.slot ELSE msg.d[k]]])

PlaceMessage(heap, msg) ==
  IF IsList(Get(msg, "content", NoneV))
  THEN MessageOf(msg, ListOf(PlaceBlocks([heap |-> heap, slots |-> <<>>],
                                         msg.d["content"].items)))
  ELSE New(heap, msg)

RECURSIVE PlaceMessages(_, _)
PlaceMessages(acc, msgs) ==
  IF msgs = <<>> THEN acc
  ELSE PlaceMessages(Placed(acc, PlaceMessage(acc.heap, Head(msgs))), Tail(msgs))

\* the heap that holds the messages of a request, and the reference to them
PlaceRequest(messages) ==
  ListOf(PlaceMessages([heap |-> <<>>, slots |-> <<>>], messages.items))

\* faulty variant of lines 182-186: the reference is written into the block
\* of the input, without the copy
WriteReferenceInPlace(heap, block, reference) ==
  [heap |-> DictSet(heap, block.id, "content", reference), slot |-> block]

\* lines 182-186: block = block.copy(); block["content"] = reference
WriteReference(heap, block, reference) ==
  [heap |-> DictSet(DictCopy(heap, block.id).heap, Len(heap) + 1, "content", reference),
   slot |-> Ref(Len(heap) + 1)]

\* line 187: new_content.append(block)
AppendBlock(acc, written) ==
  [acc EXCEPT !.heap = ListAppend(written.heap, acc.target, written.slot)]

\* lines 170-187 for one block; acc holds the heap, the identity of
\* new_content and whether block.get raised
BlockStep(acc, block) ==
  IF acc.raised THEN acc
  ELSE IF ~IsRef(block) THEN [acc EXCEPT !.raised = TRUE]
  ELSE IF Offloadable(Deref(acc.heap, block))
  THEN AppendBlock(acc,
         WriteReference(acc.heap, block,
           Reference(generate_hash(acc.heap[block.id].d["content"]),
                     acc.heap[block.id].d["content"])))
  ELSE AppendBlock(acc, [heap |-> acc.heap, slot |-> block])

RECURSIVE BlockSteps(_, _)
BlockSteps(acc, blocks) ==
  IF blocks = <<>> THEN acc
  ELSE BlockSteps(BlockStep(acc, Head(blocks)), Tail(blocks))

\* lines 188-189 after the loop over the blocks: compressed_msg["content"] =
\* new_content; compressed_messages.append(compressed_msg)
CloseMessage(acc, copy, inner) ==
  IF inner.raised THEN [acc EXCEPT !.heap = inner.heap, !.raised = TRUE]
  ELSE [acc EXCEPT !.heap = ListAppend(DictSet(inner.heap, copy.id, "content",
                                               Ref(inner.target)),
                                       acc.target, copy)]

\* lines 169-189 with compressed_msg (copy) and new_content made
WithNewContent(acc, msg, copy, new_content) ==
  CloseMessage(acc, copy,
               BlockSteps([heap |-> new_content.heap,
                           target |-> new_content.slot.id,
                           raised |-> FALSE],
                          new_content.heap[new_content.heap[msg.id].d["content"].id].items))

\* lines 168-189 with compressed_msg made
WithCopy(acc, msg, copied) ==
  IF /\ Get(copied.heap[msg.id], "role", NoneV) = USER
     /\ IsRef(Get(copied.heap[msg.id], "content", NoneV))
  THEN WithNewContent(acc, msg, copied.slot,
                      New(copied.heap, [t |-> "list", items |-> <<>>]))
  ELSE [acc EXCEPT !.heap = ListAppend(copied.heap, acc.target, copied.slot)]

\* lines 165-189 for one message; acc holds the heap, the identity of
\* compressed_messages and whether an exception was raised
MessageStep(acc, msg) ==
  IF acc.raised THEN acc ELSE WithCopy(acc, msg, DictCopy(acc.heap, msg.id))

RECURSIVE MessageSteps(_, _)
MessageSteps(acc, msgs) ==
  IF msgs = <<>> THEN acc
  ELSE MessageSteps(MessageStep(acc, Head(msgs)), Tail(msgs))

\* what the objects hold when basic_compress is left: the messages it was
\* given (input), the messages it wrote (output)
ObjectsResult(placed, run) ==
  [input |-> Deref(run.heap, placed.slot),
   output |-> Deref(run.heap, Ref(run.target)),
   raised |-> run.raised]

\* lines 162-189 on the objects of a request, compressed_messages made
ObjectsRun(placed, compressed_messages) ==
  ObjectsResult(placed,
                MessageSteps([heap |-> compressed_messages.heap,
                              target |-> compressed_messages.slot.id,
                              raised |-> FALSE],
                             compressed_messages.heap[placed.slot.id].items))

ObjectsPlaced(placed) ==
  ObjectsRun(placed, New(placed.heap, [t |-> "list", items |-> <<>>]))

basic_compress_objects(messages) == ObjectsPlaced(PlaceRequest(messages))

\* the messages of the request when the handler is left: basic_compress is
\* the only code of the handler that is given them as objects it could write
MessagesAfter(request, fallback_called) ==
  IF fallback_called THEN basic_compress_objects(request.messages)
  ELSE [input |-> request.messages, output |-> NoneV, raised |-> FALSE]

\* ------------------------------------------------------------------------
\* Requests of the model
\* ------------------------------------------------------------------------
\* a 5000-character tool output that starts with "ERRor"
P5000 == S(<<"E", "R", "R", "o", "r">>, 4995)

\* a 2001-character tool output that starts with ok"
P2001 == S(<<"o", "k", QUOTE>>, 1998)

\* a 2000-character tool output
P2000 == S(<<"o", "k">>, 1998)

T1 == S(<<"t", "1">>, 0)

T2 == S(<<"t", "2">>, 0)

ToolResult(id, content) ==
  D([type |-> TOOL_RESULT, tool_use_id |-> id, content |-> content])

ToolResultNoId(content) == D([type |-> TOOL_RESULT, content |-> content])

TextBlock(s) == D([type |-> TEXT, text |-> s])

Msg(role, content) == D([role |-> role, content |-> content])

SomeTools == L(<<D([name |-> S(<<"w">>, 0)])>>)

Req(msgs, tools) == [messages |-> L(msgs), tools |-> tools]

\* 199 tokens: just below the gate
ReqBelowGate == Req(<<Msg(USER, S(<<"o", "k">>, 764))>>, SomeTools)

\* 200 tokens: at the gate, nothing to offload
ReqAtGate == Req(<<Msg(USER, S(<<"o", "k">>, 765))>>, NoneV)

ReqOneBig == Req(<<Msg(USER, L(<<ToolResult(T1, P5000)>>))>>, SomeTools)

ReqOneBigNoId == Req(<<Msg(USER, L(<<ToolResultNoId(P5000)>>))>>, NoneV)

ReqBoundary ==
  Req(<<Msg(ASSISTANT, S(<<"o", "k">>, 0)),
        Msg(USER, L(<<ToolResult(T1, P2001), ToolResult(T2, P2000)>>))>>, NoneV)

\* a big tool result in an assistant message, a big text block, a tool
\* result whose content is a list: nothing is offloaded
ReqNothing ==
  Req(<<Msg(ASSISTANT, L(<<ToolResult(T1, P5000)>>)),
        Msg(USER, L(<<TextBlock(P5000), ToolResult(T2, L(<<TextBlock(P2001)>>))>>))>>,
      NoneV)

\* the same payload twice in one request
ReqTwice ==
  Req(<<Msg(USER, L(<<ToolResult(T1, P5000), ToolResult(T2, P5000)>>))>>, NoneV)

\* a block that is not a mapping after a block that is offloaded
ReqMalformed ==
  Req(<<Msg(USER, L(<<ToolResult(T2, P2001), S(<<"o", "k">>, 0),
                      ToolResult(T1, P5000)>>))>>, NoneV)

Requests ==
  <<ReqBelowGate, ReqAtGate, ReqOneBig, ReqOneBigNoId, ReqBoundary, ReqNothing,
    ReqTwice, ReqMalformed>>

\* ------------------------------------------------------------------------
\* What headroom_pipeline.apply can do
\* ------------------------------------------------------------------------
SMART == S(<<"s", "m", "a", "r", "t">>, 0)

CRUSH == S(<<"c", "r", "u", "s", "h">>, 0)

\* a TransformResult-like object
Obj(messages, has_ta, ta) ==
  [t |-> "object", messages |-> messages, has_ta |-> has_ta, ta |-> ta]

\* a transform object exposing .name
Named(name) == [t |-> "object", name |-> name]

\* the request's messages without the first
DropFirst(request) == L(Tail(request.messages.items))

Raises == [raises |-> TRUE, result |-> NoneV]

Returns(v) == [raises |-> FALSE, result |-> v]

\* messages that serialize but are not a list of mappings
BadShape == L(<<S(<<"o", "k">>, 0)>>)

\* messages that json.dumps cannot serialize
NotJson == L(<<Named(SMART)>>)

\* the behaviours of the pipeline tried on each request of the model: it
\* raises, or returns one of the shapes the handler distinguishes
PipelineOutcomes(request) ==
  IF request = ReqAtGate THEN
    <<Raises, Returns(Obj(request.messages, TRUE, <<SMART, Named(CRUSH)>>)),
      Returns(NoneV)>>
  ELSE IF request = ReqOneBig THEN
    <<Raises, Returns(Obj(BadShape, TRUE, <<SMART>>)),
      Returns(D([messages |-> DropFirst(request), transforms |-> L(<<CRUSH>>)]))>>
  ELSE IF request = ReqOneBigNoId THEN
    <<Raises, Returns(Obj(NotJson, TRUE, <<SMART>>))>>
  ELSE IF request = ReqBoundary THEN
    <<Raises, Returns(DropFirst(request)), Returns(Obj(DropFirst(request), FALSE, <<>>))>>
  ELSE IF request = ReqNothing THEN
    <<Raises, Returns(D([other |-> NoneV])), Returns(NoneV)>>
  ELSE IF request = ReqMalformed THEN
    <<Raises, Returns(Obj(BadShape, FALSE, <<>>))>>
  ELSE <<Raises>>

\* faulty variant: a result of no known shape is taken for the messages
NormalizeRaw(result, request) ==
  IF result.t = "object" THEN
    [messages |-> result.messages,
     transforms |-> IF result.has_ta
                    THEN [i \in 1..Len(result.ta) |->
                            IF IsStr(result.ta[i]) THEN result.ta[i]
                            ELSE result.ta[i].name]
                    ELSE <<>>]
  ELSE IF result.t = "dict" THEN
    [messages |-> Get(result, "messages", request.messages),
     transforms |-> Get(result, "transforms", L(<<>>)).items]
  ELSE [messages |-> result, transforms |-> <<>>]

\* lines 274-286: (compressed_messages, transforms_applied) of a result
Normalize(result, request) ==
  IF result.t = "object" THEN
    [messages |-> result.messages,
     transforms |-> IF result.has_ta
                    THEN [i \in 1..Len(result.ta) |->
                            IF IsStr(result.ta[i]) THEN result.ta[i]
                            ELSE result.ta[i].name]
                    ELSE <<>>]
  ELSE IF result.t = "dict" THEN
    [messages |-> Get(result, "messages", request.messages),
     transforms |-> Get(result, "transforms", L(<<>>)).items]
  ELSE
    [messages |-> IF IsList(result) THEN result ELSE request.messages,
     transforms |-> <<>>]

\* CompressResponse accepts messages: List[Dict[str, Any]]
ValidMessages(v) ==
  IsList(v) /\ \A i \in 1..Len(v.items) : IsDict(v.items[i])

\* ------------------------------------------------------------------------
\* State
\* ------------------------------------------------------------------------
VARIABLES
  ccr_store,           \* the CCR store: address -> entry
  ccr_keys,            \* the keys of ccr_store in the order a dict keeps them
  metrics,             \* the metrics counters
  HEADROOM_AVAILABLE,  \* the external pipeline was loaded at start-up
  now,                 \* the wall clock, in seconds
  req,                 \* the request being answered (history)
  resp,                \* the response to it (history)
  calls                \* which compressors that request invoked (history)

vars == <<ccr_store, ccr_keys, metrics, HEADROOM_AVAILABLE, now, req, resp, calls>>

\* the instants at which the clock is read: around every multiple of the TTL
Instants ==
  {0} \cup UNION {{e * CcrTtl - 1, e * CcrTtl, e * CcrTtl + 1} : e \in 1..MaxEpochs}

EmptyStore == [k \in {} |-> NoneV]

NoCalls == [pipeline |-> FALSE, fallback |-> FALSE]

Init ==
  /\ ccr_store = EmptyStore
  /\ ccr_keys = <<>>
  /\ metrics = [requests_total |-> 0, compressions_applied |-> 0,
                compressions_skipped |-> 0, errors |-> 0, ccr_stores |-> 0,
                ccr_retrievals |-> 0, total_tokens_before |-> 0,
                total_tokens_after |-> 0]
  /\ HEADROOM_AVAILABLE \in BOOLEAN
  /\ now = 0
  /\ req = [op |-> "none"]
  /\ resp = [op |-> "none"]
  /\ calls = NoCalls

\* ------------------------------------------------------------------------
\* POST /compress
\* ------------------------------------------------------------------------
\* lines 252-262: the response of a request below the threshold
SkippedResponse(request, tokens_before) ==
  [op |-> "compress", status |-> 200,
   messages |-> request.messages, tools |-> request.tools,
   compressed |-> FALSE,
   stats |-> [skipped |-> TRUE,
              reason |-> S(BelowHead \o Decimal(tokens_before) \o <<" ", "<", " ">>
                           \o Decimal(MinTokens) \o <<")">>, 0)]]

\* faulty variant: an exception of basic_compress is answered with the input
FallbackAnswerSilent(result, m, latency, pipeline_called) ==
  [store |-> result.store,
   inserted |-> result.inserted,
   metrics |-> [m EXCEPT !.ccr_stores = result.ccr_stores,
                         !.compressions_skipped = @ + 1],
   resp |-> [op |-> "compress", status |-> 200,
             messages |-> result.messages, tools |-> result.tools,
             compressed |-> FALSE,
             stats |-> [result.stats EXCEPT !.latency_ms = latency]],
   calls |-> [pipeline |-> pipeline_called, fallback |-> TRUE]]

\* lines 312-324: what the handler does with what basic_compress returned,
\* or with the exception it raised
FallbackAnswer(result, m, latency, pipeline_called) ==
  IF result.raised
  THEN [store |-> result.store,
        inserted |-> result.inserted,
        metrics |-> [m EXCEPT !.ccr_stores = result.ccr_stores,
                              !.errors = @ + 1],
        resp |-> [op |-> "compress", status |-> 500],
        calls |-> [pipeline |-> pipeline_called, fallback |-> TRUE]]
  ELSE [store |-> result.store,
        inserted |-> result.inserted,
        metrics |->
          [m EXCEPT !.ccr_stores = result.ccr_stores,
                    !.total_tokens_after = @ + result.stats.tokens_after,
                    !.compressions_applied =
                       IF result.compressed THEN @ + 1 ELSE @,
                    !.compressions_skipped =
                       IF result.compressed THEN @ ELSE @ + 1],
        resp |-> [op |-> "compress", status |-> 200,
                  messages |-> result.messages, tools |-> result.tools,
                  compressed |-> result.compressed,
                  stats |-> [result.stats EXCEPT !.latency_ms = latency]],
        calls |-> [pipeline |-> pipeline_called, fallback |-> TRUE]]

\* lines 310-324: the fallback, from metrics m (requests_total and
\* total_tokens_before already counted)
FallbackStage(request, m, store, t, latency, pipeline_called) ==
  FallbackAnswer(basic_compress(request.messages, request.tools, store,
                                m.ccr_stores, t),
                 m, latency, pipeline_called)

\* lines 273-306: what the handler does with a result the pipeline returned
HandleResult(request, result, tokens_before, m, latency) ==
  LET norm == Normalize(result, request)
  IN IF Unserializable(norm.messages)
     THEN [returned |-> FALSE, metrics |-> m]
     ELSE
       LET tokens_after == estimate_tokens(norm.messages)
           m1 == [m EXCEPT !.total_tokens_after = @ + tokens_after,
                           !.compressions_applied = @ + 1]
       IN IF ~ValidMessages(norm.messages)
          THEN [returned |-> FALSE, metrics |-> m1]
          ELSE [returned |-> TRUE, metrics |-> m1,
                resp |-> [op |-> "compress", status |-> 200,
                          messages |-> norm.messages,
                          tools |-> request.tools,
                          compressed |-> tokens_after < tokens_before,
                          stats |-> RunStats(tokens_before, tokens_after,
                                             norm.transforms, latency)]]

\* faulty variant: when the pipeline raises, the input is returned as it is
PipelineStageSwallow(request, outcome, tokens_before, m, latency) ==
  IF outcome.raises
  THEN [returned |-> TRUE, metrics |-> m,
        resp |-> [op |-> "compress", status |-> 200,
                  messages |-> request.messages, tools |-> request.tools,
                  compressed |-> FALSE,
                  stats |-> RunStats(tokens_before, tokens_before, <<>>, latency)]]
  ELSE HandleResult(request, outcome.result, tokens_before, m, latency)

\* lines 266-308: the call of the pipeline; returned = FALSE when the inner
\* try block was left by an exception, with the metrics it had counted so far
PipelineStage(request, outcome, tokens_before, m, latency) ==
  IF outcome.raises THEN [returned |-> FALSE, metrics |-> m]
  ELSE HandleResult(request, outcome.result, tokens_before, m, latency)

\* faulty variant: the threshold is taken from smart_crusher_max_items
BelowThresholdItems(tokens_before) == tokens_before < 15

\* line 252: the gate
BelowThreshold(tokens_before) == tokens_before < MinTokens

\* compress_messages, the whole handler
\* lines 265-319 after the pipeline stage: its response, or the fallback
AfterPipeline(request, stage, store, t, latency) ==
  IF stage.returned
  THEN [store |-> store, inserted |-> <<>>, metrics |-> stage.metrics,
        resp |-> stage.resp,
        calls |-> [pipeline |-> TRUE, fallback |-> FALSE]]
  ELSE FallbackStage(request, stage.metrics, store, t, latency, TRUE)

\* lines 251-319: the handler once the input tokens are counted
Gated(request, outcome, latency, store, m, available, t, tokens_before) ==
  IF BelowThreshold(tokens_before)
  THEN [store |-> store,
        inserted |-> <<>>,
        metrics |-> [m EXCEPT !.compressions_skipped = @ + 1],
        resp |-> SkippedResponse(request, tokens_before),
        calls |-> NoCalls]
  ELSE IF available
  THEN AfterPipeline(request,
                     PipelineStage(request, outcome, tokens_before, m, latency),
                     store, t, latency)
  ELSE FallbackStage(request, m, store, t, latency, FALSE)

\* lines 244-249: the counters of the request and of its input tokens
Counted(request, outcome, latency, store, m0, available, t, tokens_before) ==
  Gated(request, outcome, latency, store,
        [m0 EXCEPT !.requests_total = @ + 1,
                   !.total_tokens_before = @ + tokens_before],
        available, t, tokens_before)

compress_messages(request, outcome, latency, store, m0, available, t) ==
  Counted(request, outcome, latency, store, m0, available, t,
          estimate_tokens(request.messages))

Latencies == {3}

\* the handler's effects on the store and the metrics, and its response
Answered(done) ==
  /\ ccr_store' = done.store
  /\ ccr_keys' = ccr_keys \o done.inserted
  /\ metrics' = done.metrics
  /\ resp' = done.resp
  /\ calls' = done.calls

Compress ==
  /\ metrics.requests_total < MaxRequests
  /\ \E i \in 1..Len(Requests), latency \in Latencies :
       \E j \in 1..Len(PipelineOutcomes(Requests[i])) :
         /\ (HEADROOM_AVAILABLE \/ j = 1)
         /\ Answered(compress_messages(Requests[i], PipelineOutcomes(Requests[i])[j],
                                       latency, ccr_store, metrics,
                                       HEADROOM_AVAILABLE, now))
         /\ req' = [op |-> "compress", request |-> Requests[i],
                    outcome |-> PipelineOutcomes(Requests[i])[j],
                    after |-> MessagesAfter(Requests[i], calls'.fallback)]
  /\ UNCHANGED <<HEADROOM_AVAILABLE, now>>

\* ------------------------------------------------------------------------
\* POST /ccr/retrieve
\* ------------------------------------------------------------------------
RetrieveResponse(success, content, items_retrieved, was_search, error) ==
  [op |-> "retrieve", success |-> success, content |-> content,
   items_retrieved |-> items_retrieved, was_search |-> was_search,
   error |-> error]

\* request.query.lower() in json.dumps(item).lower()
ItemMatches(item, query) ==
  TextContains(TextLower(Dumps(item)), LowerSeq(query.pre))

RECURSIVE Filter(_, _)
Filter(items, query) ==
  IF items = <<>> THEN <<>>
  ELSE IF ItemMatches(Head(items), query)
       THEN <<Head(items)>> \o Filter(Tail(items), query)
       ELSE Filter(Tail(items), query)

\* faulty variant: max_results is ignored
SliceAll(seq, max_results) == seq

\* seq[:m] of Python: m None keeps everything, m < 0 drops the last -m items
Slice(seq, max_results) ==
  IF max_results.t = "none" THEN seq
  ELSE IF max_results.n >= 0
       THEN SubSeq(seq, 1, IF max_results.n < Len(seq) THEN max_results.n ELSE Len(seq))
       ELSE SubSeq(seq, 1, Len(seq) + max_results.n)

IntV(n) == [t |-> "int", n |-> n]

\* bool(request.query)
Truthy(query) == query.t = "str" /\ StrLen(query) > 0

\* faulty variant: the comparison is case-sensitive
StringMatchesExact(content, query) == TextContains(StrText(content), query.pre)

\* request.query.lower() in content.lower()
StringMatches(content, query) ==
  TextContains(TextLower(StrText(content)), LowerSeq(query.pre))

\* faulty variant: a long string is cut to its first 2000 characters
FullResponsePreview(content) ==
  RetrieveResponse(TRUE,
                   IF IsStr(content) /\ StrLen(content) > OffloadThreshold
                   THEN S(content.pre, OffloadThreshold - Len(content.pre))
                   ELSE content,
                   IF IsList(content) THEN Len(content.items) ELSE 1,
                   FALSE, NoneV)

\* lines 371-377: the full content
FullResponse(content) ==
  RetrieveResponse(TRUE, content,
                   IF IsList(content) THEN Len(content.items) ELSE 1,
                   FALSE, NoneV)

\* lines 338-377: the response for an entry that was found
FoundResponse(content, query, max_results) ==
  IF Truthy(query) /\ IsList(content) THEN
    LET filtered == Slice(Filter(content.items, query), max_results)
    IN RetrieveResponse(TRUE, L(filtered), Len(filtered), TRUE, NoneV)
  ELSE IF Truthy(query) /\ IsStr(content) THEN
    IF StringMatches(content, query)
    THEN RetrieveResponse(TRUE, content, 1, TRUE, NoneV)
    ELSE RetrieveResponse(FALSE, NoneV, 0, FALSE, QUERY_NOT_FOUND)
  ELSE FullResponse(content)

\* ccr_retrieve, the whole handler
ccr_retrieve(hash, query, max_results, store, m, t) ==
  LET swept == cleanup_expired_ccr(store, t)
  IN IF hash \notin DOMAIN swept
     THEN [store |-> swept, metrics |-> m,
           resp |-> RetrieveResponse(FALSE, NoneV, 0, FALSE,
                      S(HashNotFoundHead \o hash \o HashNotFoundTail, 0))]
     ELSE [store |-> swept,
           metrics |-> [m EXCEPT !.ccr_retrievals = @ + 1],
           resp |-> FoundResponse(swept[hash].content, query, max_results)]

\* the addresses a caller presents: those of the payloads of the model, and
\* one that is never stored
Hashes == <<generate_hash(P5000), generate_hash(P2001), generate_hash(P2000)>>

\* the queries a caller presents: none, empty, and search words
Queries ==
  <<NoneV, EMPTY, S(<<"e", "r", "r", "O", "R">>, 0), S(<<"k", QUOTE>>, 0)>>

\* a retrieve request drawn from the given addresses, queries and limits
RetrieveFrom(hashes, queries, limits) ==
  /\ \E i \in 1..Len(hashes), j \in 1..Len(queries), k \in 1..Len(limits) :
       LET done == ccr_retrieve(hashes[i], queries[j], limits[k],
                                ccr_store, metrics, now)
       IN /\ done.metrics.ccr_retrievals <= MaxRetrievals
          /\ ccr_store' = done.store
          /\ ccr_keys' = KeysLeft(ccr_keys, done.store)
          /\ metrics' = done.metrics
          /\ resp' = done.resp
          /\ req' = [op |-> "retrieve", hash |-> hashes[i], query |-> queries[j],
                     max_results |-> limits[k]]
  /\ calls' = NoCalls
  /\ UNCHANGED <<HEADROOM_AVAILABLE, now>>

\* max_results is left at its default
Retrieve == RetrieveFrom(Hashes, Queries, <<IntV(DefaultMaxResults)>>)

\* ------------------------------------------------------------------------
\* GET /health
\* ------------------------------------------------------------------------
health_check(store, available, t) ==
  LET swept == cleanup_expired_ccr(store, t)
  IN [store |-> swept,
      resp |-> [op |-> "health", headroom_loaded |-> available,
                entries_cached |-> Cardinality(DOMAIN swept)]]

Health ==
  /\ LET done == health_check(ccr_store, HEADROOM_AVAILABLE, now)
     IN /\ ccr_store' = done.store
        /\ ccr_keys' = KeysLeft(ccr_keys, done.store)
        /\ resp' = done.resp
  /\ req' = [op |-> "health"]
  /\ calls' = NoCalls
  /\ UNCHANGED <<metrics, HEADROOM_AVAILABLE, now>>

\* ------------------------------------------------------------------------
\* GET /metrics
\* ------------------------------------------------------------------------
\* round(after / before, 3), in thousandths; 1.0 when nothing was counted
AverageRatio(m) ==
  IF m.total_tokens_before > 0
  THEN (2000 * m.total_tokens_after + m.total_tokens_before)
         \div (2 * m.total_tokens_before)
  ELSE 1000

get_metrics(m, store) ==
  [op |-> "metrics", metrics |-> m,
   average_compression_ratio |-> AverageRatio(m),
   ccr_entries |-> Cardinality(DOMAIN store)]

Metrics ==
  /\ resp' = get_metrics(metrics, ccr_store)
  /\ req' = [op |-> "metrics"]
  /\ calls' = NoCalls
  /\ UNCHANGED <<ccr_store, ccr_keys, metrics, HEADROOM_AVAILABLE, now>>

\* ------------------------------------------------------------------------
\* POST /ccr/track
\* ------------------------------------------------------------------------
ccr_track(hash_key) == [op |-> "track", tracked |-> TRUE, hash_key |-> hash_key]

Track ==
  /\ resp' = ccr_track(Hashes[1])
  /\ req' = [op |-> "track", hash_key |-> Hashes[1]]
  /\ calls' = NoCalls
  /\ UNCHANGED <<ccr_store, ccr_keys, metrics, HEADROOM_AVAILABLE, now>>

\* ------------------------------------------------------------------------
\* POST /ccr/analyze
\* ------------------------------------------------------------------------
MaxExpansions == 5

\* expansions[:5]
FirstExpansions(expansions) ==
  SubSeq(expansions, 1,
         IF Len(expansions) < MaxExpansions THEN Len(expansions) ELSE MaxExpansions)

\* the entry of a key that matched; the relevance 0.8 is written in tenths
Expansion(hash_key, entry) ==
  [hash |-> hash_key, tool_name |-> entry.tool_name, relevance |-> 8]

\* the keys, in the order of the dict, whose content holds the query
MatchingKeys(query, keys, store) ==
  SelectSeq(keys, LAMBDA k : ItemMatches(store[k].content, query))

Expansions(matching, store) ==
  [i \in 1..Len(matching) |-> Expansion(matching[i], store[matching[i]])]

ccr_analyze(query, keys, store) ==
  [op |-> "analyze",
   expansions |-> FirstExpansions(Expansions(MatchingKeys(query, keys, store), store))]

\* the words a caller asks about
AnalyzeQueries ==
  <<S(<<"e", "r", "r", "o", "r">>, 0), S(<<"O", "K">>, 0), EMPTY>>

Analyze ==
  /\ \E i \in 1..Len(AnalyzeQueries) :
       /\ resp' = ccr_analyze(AnalyzeQueries[i], ccr_keys, ccr_store)
       /\ req' = [op |-> "analyze", query |-> AnalyzeQueries[i]]
  /\ calls' = NoCalls
  /\ UNCHANGED <<ccr_store, ccr_keys, metrics, HEADROOM_AVAILABLE, now>>

\* ------------------------------------------------------------------------
\* The clock
\* ------------------------------------------------------------------------
Tick ==
  /\ \E t \in Instants : t > now /\ now' = t
  /\ UNCHANGED <<ccr_store, ccr_keys, metrics, HEADROOM_AVAILABLE, req, resp, calls>>

Next == Compress \/ Retrieve \/ Health \/ Analyze \/ Metrics \/ Track \/ Tick

Spec == Init /\ [][Next]_vars

\* ------------------------------------------------------------------------
\* Retrieval from a store that holds an ordered-sequence payload. No handler
\* stores a sequence (basic_compress offloads strings only), so the entry is
\* put into the module-level ccr_store directly, under its address, before
\* the handlers run.
\* ------------------------------------------------------------------------
\* ten items, three of which contain "error" in some case
ListPayload ==
  L(<<S(<<"E", "r", "r", "o", "r">>, 0),
      S(<<"o", "k">>, 0),
      S(<<"w">>, 0),
      S(<<"a", " ", "E", "R", "R", "O", "R">>, 0),
      S(<<"o", "k">>, 0),
      NoneV,
      S(<<"e", "r", "r", "o", "r", "s">>, 0),
      S(<<"o">>, 0),
      S(<<"o", "k", QUOTE>>, 0),
      S(<<"w">>, 0)>>)

SeededStore ==
  [k \in {generate_hash(ListPayload)} |->
     [content |-> ListPayload, timestamp |-> 0, tool_name |-> UNKNOWN]]

InitSeeded ==
  /\ ccr_store = SeededStore
  /\ ccr_keys = <<generate_hash(ListPayload)>>
  /\ metrics = [requests_total |-> 0, compressions_applied |-> 0,
                compressions_skipped |-> 0, errors |-> 0, ccr_stores |-> 0,
                ccr_retrievals |-> 0, total_tokens_before |-> 0,
                total_tokens_after |-> 0]
  /\ HEADROOM_AVAILABLE \in BOOLEAN
  /\ now = 0
  /\ req = [op |-> "none"]
  /\ resp = [op |-> "none"]
  /\ calls = NoCalls

SearchQueries ==
  <<NoneV, S(<<"e", "r", "r", "o", "r">>, 0), S(<<"E", "R", "R">>, 0),
    S(<<"o">>, 0), S(<<QUOTE>>, 0), S(<<"z", "z">>, 0)>>

MaxResultsValues ==
  <<IntV(DefaultMaxResults), NoneV, IntV(0), IntV(1), IntV(2), IntV(3), IntV(0 - 1)>>

RetrieveSeeded ==
  RetrieveFrom(<<generate_hash(ListPayload), generate_hash(P2000)>>,
               SearchQueries, MaxResultsValues)

NextSeeded == RetrieveSeeded \/ Health \/ Tick

SpecSeeded == InitSeeded /\ [][NextSeeded]_vars

\* ------------------------------------------------------------------------
\* Vocabulary of the properties
\* ------------------------------------------------------------------------
\* the blocks of the user messages whose content is a block sequence, in order
RECURSIVE BlocksFrom(_, _)
BlocksFrom(msgs, i) ==
  IF i > Len(msgs) THEN <<>>
  ELSE (IF /\ "role" \in DOMAIN msgs[i].d
           /\ msgs[i].d["role"] = USER
           /\ "content" \in DOMAIN msgs[i].d
           /\ msgs[i].d["content"].t = "list"
        THEN msgs[i].d["content"].items
        ELSE <<>>) \o BlocksFrom(msgs, i + 1)

UserBlocks(messages) == BlocksFrom(messages.items, 1)

\* the blocks the fallback reaches: those before the first block that is
\* not a mapping
Reached(messages) ==
  LET bs == UserBlocks(messages)
      bad == {i \in 1..Len(bs) : bs[i].t # "dict"}
  IN IF bad = {} THEN bs
     ELSE SubSeq(bs, 1, (CHOOSE i \in bad : \A j \in bad : i <= j) - 1)

\* a tool_result block whose content is a string of more than 2000 characters
BigToolResult(b) ==
  /\ b.t = "dict"
  /\ "type" \in DOMAIN b.d
  /\ b.d["type"] = TOOL_RESULT
  /\ "content" \in DOMAIN b.d
  /\ b.d["content"].t = "str"
  /\ Len(b.d["content"].pre) + b.d["content"].pad > 2000

\* the positions of the reached blocks that are offloaded
PutPositions(messages) ==
  {i \in 1..Len(Reached(messages)) : BigToolResult(Reached(messages)[i])}

\* the payloads a fallback run on the messages offloads
PayloadsPut(messages) ==
  {Reached(messages)[i].d["content"] : i \in PutPositions(messages)}

\* the address embedded in a reference string
EmbeddedAddress(ref) == SubSeq(ref.pre, Len(RefHead) + 1, Len(RefHead) + HashLen)

\* the step is a /compress request, a /ccr/retrieve request, a /health request
CompressStep == metrics'.requests_total = metrics.requests_total + 1

RetrieveStep == req'.op = "retrieve" /\ now' = now

HealthStep == req'.op = "health" /\ now' = now

\* the last request was a /compress request that the fallback answered
FallbackAnswered ==
  resp.op = "compress" /\ resp.status = 200 /\ calls.fallback

\* ------------------------------------------------------------------------
\* C1 - Dedup: every offload of a payload P returns the address computed
\* from P alone, whatever the store holds and whenever it is made, and the
\* store holds one entry for P, under that address: every key is the
\* address of the payload stored under it, no payload is stored under two
\* keys, and after a fallback run each payload it offloaded has exactly one
\* entry, at the address embedded in the reference the caller got.
\* ------------------------------------------------------------------------
C1_Dedup ==
  /\ \A k \in DOMAIN ccr_store : k = generate_hash(ccr_store[k].content)
  /\ \A k1, k2 \in DOMAIN ccr_store :
       ccr_store[k1].content = ccr_store[k2].content => k1 = k2
  /\ (resp.op = "compress" /\ calls.fallback) =>
       \A P \in PayloadsPut(req.request.messages) :
         Cardinality({k \in DOMAIN ccr_store : ccr_store[k].content = P}) = 1
  /\ FallbackAnswered =>
       LET inb == UserBlocks(req.request.messages)
           outb == UserBlocks(resp.messages)
       IN /\ Len(outb) = Len(inb)
          /\ \A i \in PutPositions(req.request.messages) :
               LET a == EmbeddedAddress(outb[i].d["content"])
               IN /\ a = generate_hash(inb[i].d["content"])
                  /\ a \in DOMAIN ccr_store
                  /\ ccr_store[a].content = inb[i].d["content"]

\* the same payload has been offloaded three times, by two requests, and
\* the store holds one entry
C1_Witness ==
  /\ FallbackAnswered
  /\ req.request = ReqTwice
  /\ metrics.ccr_stores = 3
  /\ Cardinality(DOMAIN ccr_store) = 1

\* the source label the entry of payload P carries after a fallback run on
\* the messages: the tool_use_id of the last reached block that offloads P
LabelAfter(messages, P) ==
  LET bs == Reached(messages)
      at == {i \in PutPositions(messages) : bs[i].d["content"] = P}
      last == CHOOSE i \in at : \A j \in at : j <= i
  IN IF "tool_use_id" \in DOMAIN bs[last].d THEN bs[last].d["tool_use_id"]
     ELSE UNKNOWN

\* ------------------------------------------------------------------------
\* C2 as stated - Idempotent insert: a /compress request leaves every entry
\* that exists unchanged (an offload onto an existing address refreshes
\* neither its timestamp nor its source label).
\* ------------------------------------------------------------------------
C2_Original ==
  [][CompressStep =>
       \A k \in DOMAIN ccr_store :
         k \in DOMAIN ccr_store' /\ ccr_store'[k] = ccr_store[k]]_vars

\* ------------------------------------------------------------------------
\* C2 as amended - Overwriting insert: an offload writes the entry at the
\* payload's address whether or not the address is present: the entry then
\* holds the payload, created_at = now and the source label of the block
\* offloaded last; an existing entry keeps its payload, but its timestamp
\* is refreshed and its label replaced. Entries at addresses that the
\* request does not offload are left unchanged, and no entry is removed.
\* ------------------------------------------------------------------------
C2_Overwrite ==
  [][CompressStep =>
       LET puts == IF calls'.fallback THEN PayloadsPut(req'.request.messages) ELSE {}
           written == {generate_hash(P) : P \in puts}
       IN /\ DOMAIN ccr_store' = DOMAIN ccr_store \cup written
          /\ \A P \in puts :
               ccr_store'[generate_hash(P)] =
                 [content |-> P, timestamp |-> now,
                  tool_name |-> LabelAfter(req'.request.messages, P)]
          /\ \A k \in DOMAIN ccr_store :
               /\ k \notin written => ccr_store'[k] = ccr_store[k]
               /\ ccr_store'[k].content = ccr_store[k].content]_vars

\* an entry written at time 0 with label t1 has been offloaded again at
\* time 299 by a block without tool_use_id: timestamp and label are new
C2_Witness ==
  /\ FallbackAnswered
  /\ req.request = ReqOneBigNoId
  /\ metrics.requests_total = 2
  /\ metrics.ccr_stores = 2
  /\ now = CcrTtl - 1
  /\ DOMAIN ccr_store = {generate_hash(P5000)}
  /\ ccr_store[generate_hash(P5000)].timestamp = CcrTtl - 1
  /\ ccr_store[generate_hash(P5000)].tool_name = UNKNOWN

\* the NotFound error of an address
NotFoundError(hash) == S(HashNotFoundHead \o hash \o HashNotFoundTail, 0)

\* ------------------------------------------------------------------------
\* C3 - Expiry: a retrieve at time now of an entry written at time t does
\* not fail with NotFound when now <= t + TTL - 1 (and returns the payload
\* when no query is given), and fails with NotFound (success=false) when
\* now >= t + TTL + 1; after a retrieve or a health call no entry older
\* than TTL remains in the store. The time t of an entry is the time of the
\* last offload that wrote it.
\* ------------------------------------------------------------------------
C3_Expiry ==
  [][/\ RetrieveStep =>
          \A k \in DOMAIN ccr_store :
            LET t == ccr_store[k].timestamp
            IN /\ (req'.hash = k /\ now <= t + CcrTtl - 1) =>
                    /\ resp'.success \/ resp'.error = QUERY_NOT_FOUND
                    /\ ~Truthy(req'.query) =>
                         resp'.success /\ resp'.content = ccr_store[k].content
               /\ (req'.hash = k /\ now >= t + CcrTtl + 1) =>
                    /\ ~resp'.success
                    /\ resp'.content = NoneV
                    /\ resp'.error = NotFoundError(k)
     /\ (RetrieveStep \/ HealthStep) =>
          \A k \in DOMAIN ccr_store' : now - ccr_store'[k].timestamp <= CcrTtl]_vars

\* the one request so far offloaded P5000; the entry has been retrieved
\* once, and at time TTL + 1 its address is NotFound and the store is empty:
\* the entry was written at time 0 and swept
C3_Witness ==
  /\ req.op = "retrieve"
  /\ req.hash = generate_hash(P5000)
  /\ ~resp.success
  /\ resp.error = NotFoundError(generate_hash(P5000))
  /\ now = CcrTtl + 1
  /\ metrics.requests_total = 1
  /\ metrics.total_tokens_before = estimate_tokens(ReqOneBig.messages)
  /\ metrics.ccr_stores = 1
  /\ metrics.ccr_retrievals = 1
  /\ ccr_store = EmptyStore

\* ------------------------------------------------------------------------
\* C4 - Round-trip: a retrieve with no query of the address of a payload X
\* that is in the store and whose TTL has not elapsed succeeds, returns
\* content equal to X, whose address is the one asked for, and has
\* was_search = false.
\* ------------------------------------------------------------------------
C4_RoundTrip ==
  [][(/\ RetrieveStep
      /\ ~Truthy(req'.query)
      /\ req'.hash \in DOMAIN ccr_store
      /\ now - ccr_store[req'.hash].timestamp <= CcrTtl) =>
       /\ resp'.success
       /\ resp'.content = ccr_store[req'.hash].content
       /\ generate_hash(resp'.content) = req'.hash
       /\ ~resp'.was_search
       /\ resp'.error = NoneV]_vars

\* P2001, which holds a character that JSON escapes, came back unchanged
C4_Witness ==
  /\ req.op = "retrieve"
  /\ req.query = NoneV
  /\ req.hash = generate_hash(P2001)
  /\ resp.success
  /\ resp.content = P2001
  /\ ~resp.was_search
  /\ now = CcrTtl - 1

\* ------------------------------------------------------------------------
\* C5 - Gate: a /compress request whose estimated tokens are below the
\* minimum-token threshold is answered with compressed = false,
\* stats.skipped = true and the input messages; neither the pipeline nor
\* the fallback compressor is invoked, and the store and the ccr_stores
\* counter are unchanged.
\* ------------------------------------------------------------------------
C5_Gate ==
  [][(CompressStep /\ estimate_tokens(req'.request.messages) < MinTokens) =>
       /\ resp'.op = "compress"
       /\ resp'.status = 200
       /\ resp'.compressed = FALSE
       /\ "skipped" \in DOMAIN resp'.stats
       /\ resp'.stats.skipped = TRUE
       /\ resp'.messages = req'.request.messages
       /\ resp'.tools = req'.request.tools
       /\ calls' = NoCalls
       /\ ccr_store' = ccr_store
       /\ metrics'.ccr_stores = metrics.ccr_stores]_vars

\* a request of 199 tokens was skipped while the pipeline is loaded and the
\* store holds an entry
C5_Witness ==
  /\ resp.op = "compress"
  /\ req.request = ReqBelowGate
  /\ estimate_tokens(req.request.messages) = MinTokens - 1
  /\ resp.stats.skipped
  /\ HEADROOM_AVAILABLE
  /\ ccr_store # EmptyStore
  /\ metrics.compressions_skipped = 1

\* ------------------------------------------------------------------------
\* C6 - Fallback correctness: when the fallback compressor answers a
\* conversation that holds, in a user message, tool_result blocks whose
\* string content is longer than 2000 characters, each such block's content
\* is replaced by a reference string that embeds the address of the
\* content, the store then holds the content at that address, the store
\* grows by exactly the offloaded payloads that it did not hold, and
\* tokens_after < tokens_before, so compressed = true.
\* ------------------------------------------------------------------------
C6_Fallback ==
  [][(/\ CompressStep
      /\ calls'.fallback
      /\ resp'.status = 200
      /\ PutPositions(req'.request.messages) # {}) =>
       LET inb == UserBlocks(req'.request.messages)
           outb == UserBlocks(resp'.messages)
           puts == PayloadsPut(req'.request.messages)
       IN /\ Len(outb) = Len(inb)
          /\ \A i \in PutPositions(req'.request.messages) :
               LET P == inb[i].d["content"]
                   ref == outb[i].d["content"]
               IN /\ ref.t = "str"
                  /\ ref # P
                  /\ ref.pad = 0
                  /\ SubSeq(ref.pre, 1, Len(RefHead)) = RefHead
                  /\ EmbeddedAddress(ref) = generate_hash(P)
                  /\ generate_hash(P) \in DOMAIN ccr_store'
                  /\ ccr_store'[generate_hash(P)].content = P
          /\ Cardinality(DOMAIN ccr_store') - Cardinality(DOMAIN ccr_store)
               = Cardinality({P \in puts : generate_hash(P) \notin DOMAIN ccr_store})
          /\ resp'.stats.tokens_before = estimate_tokens(req'.request.messages)
          /\ resp'.stats.tokens_after = estimate_tokens(resp'.messages)
          /\ resp'.stats.tokens_after < resp'.stats.tokens_before
          /\ resp'.compressed = TRUE]_vars

\* the single 5000-character tool result was offloaded into an empty store
C6_Witness ==
  /\ FallbackAnswered
  /\ req.request = ReqOneBig
  /\ metrics.requests_total = 1
  /\ resp.compressed
  /\ resp.stats.tokens_after < resp.stats.tokens_before
  /\ DOMAIN ccr_store = {generate_hash(P5000)}
  /\ UserBlocks(resp.messages)[1].d["content"] = Reference(generate_hash(P5000), P5000)

\* ------------------------------------------------------------------------
\* C7 - Degrade path: when the pipeline raises on a request that passed the
\* gate, the fallback answers, and the response has the status, messages,
\* tools, compressed flag and stats (same keys, same values but for the
\* latency) of the response of the handler without a pipeline on the same
\* input; its transforms_applied is the fallback's: ["basic_ccr"] when the
\* fallback compressed, [] otherwise.
\* ------------------------------------------------------------------------
C7_Degrade ==
  (resp.op = "compress" /\ calls.pipeline /\ req.outcome.raises) =>
    LET only == compress_messages(req.request, req.outcome, 0, EmptyStore,
                                  metrics, FALSE, 0).resp
    IN /\ calls.fallback
       /\ resp.status = only.status
       /\ resp.status = 200 =>
            /\ resp.messages = only.messages
            /\ resp.tools = only.tools
            /\ resp.compressed = only.compressed
            /\ DOMAIN resp.stats = DOMAIN only.stats
            /\ \A f \in (DOMAIN resp.stats) \ {"latency_ms"} :
                 resp.stats[f] = only.stats[f]
            /\ resp.stats.transforms_applied =
                 IF resp.compressed THEN <<BASIC_CCR>> ELSE <<>>

\* the pipeline raised and the fallback compressed the request
C7_Witness ==
  /\ resp.op = "compress"
  /\ calls.pipeline
  /\ calls.fallback
  /\ req.outcome.raises
  /\ resp.status = 200
  /\ resp.compressed
  /\ resp.stats.transforms_applied = <<BASIC_CCR>>

\* the pipeline returned something that is no object with messages, no
\* mapping and no sequence
Unrecognized(outcome) ==
  ~outcome.raises /\ outcome.result.t \notin {"object", "dict", "list"}

\* ------------------------------------------------------------------------
\* C8 as stated - Pipeline errors always trigger fallback: whenever the
\* pipeline raises or returns a result of an unrecognized shape, the
\* request is completed by the fallback compressor.
\* ------------------------------------------------------------------------
C8_Original ==
  (/\ resp.op = "compress"
   /\ calls.pipeline
   /\ (req.outcome.raises \/ Unrecognized(req.outcome))) => calls.fallback

\* ------------------------------------------------------------------------
\* C8 as amended - whenever the pipeline raises, the failure is not
\* surfaced and the request is completed by the fallback compressor; the
\* fallback runs after a pipeline call only when the call raised or its
\* result could not be serialized or returned. A result of an unrecognized
\* shape is not a failure: the request is answered as a pipeline success
\* with the input messages, an empty transforms_applied and
\* compressed = false, and the fallback is not invoked.
\* ------------------------------------------------------------------------
C8_Amended ==
  (resp.op = "compress" /\ calls.pipeline) =>
    LET norm == Normalize(req.outcome.result, req.request)
    IN /\ req.outcome.raises => calls.fallback
       /\ calls.fallback =>
            \/ req.outcome.raises
            \/ Unserializable(norm.messages)
            \/ ~ValidMessages(norm.messages)
       /\ ~calls.fallback => resp.status = 200
       /\ Unrecognized(req.outcome) =>
            /\ ~calls.fallback
            /\ resp.messages = req.request.messages
            /\ resp.stats.transforms_applied = <<>>
            /\ resp.compressed = FALSE

\* the pipeline returned None and the request was counted as applied
C8_Witness ==
  /\ resp.op = "compress"
  /\ calls.pipeline
  /\ ~calls.fallback
  /\ req.outcome = Returns(NoneV)
  /\ resp.messages = req.request.messages
  /\ metrics.compressions_applied = 1

\* ------------------------------------------------------------------------
\* C9 - Search on a sequence payload: a retrieve with a non-empty query q
\* and max_results m >= 0 of a live entry whose payload is a sequence
\* succeeds with was_search = true and returns exactly the first min(m, k)
\* items, in stored order, of the k items whose serialized text contains q
\* case-insensitively; items_retrieved is the number returned.
\* ------------------------------------------------------------------------
C9_ListSearch ==
  (/\ req.op = "retrieve"
   /\ Truthy(req.query)
   /\ req.max_results.t = "int"
   /\ req.max_results.n >= 0
   /\ req.hash \in DOMAIN ccr_store
   /\ ccr_store[req.hash].content.t = "list") =>
    LET items == ccr_store[req.hash].content.items
        q == LowerSeq(req.query.pre)
        matches == {i \in 1..Len(items) :
                      SeqContains(LowerSeq(DumpsFlat(items[i])), q)}
        k == Cardinality(matches)
        r == IF req.max_results.n < k THEN req.max_results.n ELSE k
        nth(n) == CHOOSE i \in matches : Cardinality({j \in matches : j <= i}) = n
    IN /\ resp.success
       /\ resp.was_search
       /\ resp.error = NoneV
       /\ resp.items_retrieved = r
       /\ resp.content.t = "list"
       /\ Len(resp.content.items) = r
       /\ \A n \in 1..r : resp.content.items[n] = items[nth(n)]

\* ten items, three matching "ERR", max_results = 2: two matches returned
C9_Witness ==
  /\ req.op = "retrieve"
  /\ req.query = S(<<"E", "R", "R">>, 0)
  /\ req.max_results = IntV(2)
  /\ resp.success
  /\ resp.was_search
  /\ resp.items_retrieved = 2
  /\ resp.content = L(<<ListPayload.items[1], ListPayload.items[4]>>)

\* ------------------------------------------------------------------------
\* C10 - Search on a string payload: a retrieve with a non-empty query q of
\* a live entry whose payload is a string returns the whole string with
\* was_search = true and items_retrieved = 1 when the string contains q
\* case-insensitively, and otherwise fails (success = false) with the
\* QueryNotFound error, which differs from the NotFound error returned for
\* an absent or expired address.
\* ------------------------------------------------------------------------
C10_StringSearch ==
  req.op = "retrieve" =>
    /\ QUERY_NOT_FOUND # NotFoundError(req.hash)
    /\ req.hash \notin DOMAIN ccr_store =>
         ~resp.success /\ resp.error = NotFoundError(req.hash)
    /\ (/\ req.hash \in DOMAIN ccr_store
        /\ Truthy(req.query)
        /\ ccr_store[req.hash].content.t = "str") =>
         LET text == ccr_store[req.hash].content.pre
             q == req.query.pre
             found == \E i \in 0..(Len(text) - Len(q)) :
                        \A j \in 1..Len(q) : LowerChar(text[i + j]) = LowerChar(q[j])
         IN IF found
            THEN /\ resp.success
                 /\ resp.content = ccr_store[req.hash].content
                 /\ resp.was_search
                 /\ resp.items_retrieved = 1
                 /\ resp.error = NoneV
            ELSE /\ ~resp.success
                 /\ resp.content = NoneV
                 /\ resp.error = QUERY_NOT_FOUND

\* the entry of P5000 is live and the query does not occur in it
C10_Witness ==
  /\ req.op = "retrieve"
  /\ req.hash = generate_hash(P5000)
  /\ req.hash \in DOMAIN ccr_store
  /\ req.query = S(<<"k", QUOTE>>, 0)
  /\ ~resp.success
  /\ resp.error = QUERY_NOT_FOUND

\* the step is a /ccr/analyze request
AnalyzeStep == req'.op = "analyze" /\ now' = now

\* ------------------------------------------------------------------------
\* C11 - Keyword analysis returns only live entries: an analyze request
\* returns at most 5 expansions, and every address it returns is that of an
\* entry of the store whose age does not exceed the TTL and whose serialized
\* payload contains the keyword case-insensitively.
\* ------------------------------------------------------------------------
C11_LiveOnly ==
  [][AnalyzeStep =>
       /\ Len(resp'.expansions) <= 5
       /\ \A i \in 1..Len(resp'.expansions) :
            LET k == resp'.expansions[i].hash
            IN /\ k \in DOMAIN ccr_store
               /\ now - ccr_store[k].timestamp <= CcrTtl
               /\ TextContains(TextLower(Dumps(ccr_store[k].content)),
                               LowerSeq(req'.query.pre))]_vars

\* ------------------------------------------------------------------------
\* C12 as stated - Store-count accounting: a /compress request adds to
\* ccr_stores the number of entries it inserts at addresses that were absent
\* (a dedup hit is not counted).
\* ------------------------------------------------------------------------
C12_Original ==
  [][CompressStep =>
       metrics'.ccr_stores - metrics.ccr_stores = Len(ccr_keys') - Len(ccr_keys)]_vars

\* ------------------------------------------------------------------------
\* C12 as amended - ccr_stores is incremented on every offload, a dedup hit
\* included: a /compress request adds to it the number of blocks that the
\* fallback offloads (none when the fallback does not run), which is at
\* least the number of entries the request inserts.
\* ------------------------------------------------------------------------
C12_EveryOffload ==
  [][CompressStep =>
       /\ metrics'.ccr_stores - metrics.ccr_stores =
            IF calls'.fallback
            THEN Cardinality(PutPositions(req'.request.messages))
            ELSE 0
       /\ metrics'.ccr_stores - metrics.ccr_stores >= Len(ccr_keys') - Len(ccr_keys)
       /\ Len(ccr_keys') - Len(ccr_keys) =
            Cardinality((DOMAIN ccr_store') \ (DOMAIN ccr_store))]_vars

\* one request offloaded the same payload twice: two counted, one inserted
C12_Witness ==
  /\ FallbackAnswered
  /\ req.request = ReqTwice
  /\ metrics.requests_total = 1
  /\ metrics.ccr_stores = 2
  /\ Len(ccr_keys) = 1

\* the fields every stats mapping is to hold
StatsFields == {"tokens_before", "tokens_after", "latency_ms", "transforms_applied"}

\* the last request was a /compress request that was answered below the gate
SkippedAnswered ==
  resp.op = "compress" /\ resp.status = 200 /\ calls = NoCalls

\* ------------------------------------------------------------------------
\* C13 as stated - every /compress outcome that is answered (skipped,
\* pipeline-success, fallback-success) returns stats that record
\* tokens_before, tokens_after, the latency and the applied transforms.
\* ------------------------------------------------------------------------
C13_Original ==
  (resp.op = "compress" /\ resp.status = 200) => StatsFields \subseteq DOMAIN resp.stats

\* ------------------------------------------------------------------------
\* C13 as amended - the pipeline-success and fallback-success outcomes
\* return stats that record tokens_before (of the request's messages),
\* tokens_after (of the returned messages), the latency and the sequence of
\* applied transform identifiers; the skipped outcome returns stats that
\* hold only skipped = true and a reason text, which names tokens_before
\* and the threshold.
\* ------------------------------------------------------------------------
C13_Amended ==
  (resp.op = "compress" /\ resp.status = 200) =>
    IF SkippedAnswered
    THEN /\ DOMAIN resp.stats = {"skipped", "reason"}
         /\ resp.stats.skipped = TRUE
         /\ resp.stats.reason =
              S(BelowHead \o Decimal(estimate_tokens(req.request.messages))
                  \o <<" ", "<", " ">> \o Decimal(MinTokens) \o <<")">>, 0)
    ELSE /\ StatsFields \subseteq DOMAIN resp.stats
         /\ "skipped" \notin DOMAIN resp.stats
         /\ resp.stats.tokens_before = estimate_tokens(req.request.messages)
         /\ resp.stats.tokens_after = estimate_tokens(resp.messages)
         /\ resp.stats.latency_ms \in Latencies
         /\ DOMAIN resp.stats.transforms_applied = 1..Len(resp.stats.transforms_applied)
         /\ \A i \in 1..Len(resp.stats.transforms_applied) :
              resp.stats.transforms_applied[i].t = "str"

\* a pipeline success with two transforms, after a skipped request
C13_Witness ==
  /\ resp.op = "compress"
  /\ resp.status = 200
  /\ calls = [pipeline |-> TRUE, fallback |-> FALSE]
  /\ resp.stats.transforms_applied = <<SMART, CRUSH>>
  /\ resp.stats.tokens_before = MinTokens
  /\ metrics.compressions_skipped = 1

\* tokens_after of an answered /compress request: that of its stats, and
\* tokens_before when the request was skipped
TokensAfter(request, response) ==
  IF "tokens_after" \in DOMAIN response.stats THEN response.stats.tokens_after
  ELSE estimate_tokens(request.messages)

\* ------------------------------------------------------------------------
\* C14 - Running token totals: every /compress request that is answered
\* (skipped, pipeline-success, fallback-success) adds its tokens_before to
\* total_tokens_before and its tokens_after to total_tokens_after (for a
\* skipped request tokens_after = tokens_before), so that the totals are the
\* sums over the counted requests.
\* ------------------------------------------------------------------------
C14_Totals ==
  [][(CompressStep /\ resp'.status = 200) =>
       /\ metrics'.total_tokens_before - metrics.total_tokens_before
            = estimate_tokens(req'.request.messages)
       /\ metrics'.total_tokens_after - metrics.total_tokens_after
            = TokensAfter(req'.request, resp')]_vars

\* the fallback meets a block that is not a mapping: block.get raises
FallbackRaises(messages) == Reached(messages) # UserBlocks(messages)

\* ------------------------------------------------------------------------
\* C15 - Exceptions never escape the orchestrator: every /compress request
\* gets a response; an exception raised outside the pipeline stage (the call
\* of the external engine and the handling of its result, which degrade to
\* the fallback instead) is caught, adds exactly one to errors and is
\* answered with the failure status 500; a request that meets no such
\* exception leaves errors as it is and is answered with status 200; and a
\* request is served in the same way whatever failures came before it.
\* ------------------------------------------------------------------------
C15_Caught ==
  [][CompressStep =>
       /\ resp'.op = "compress"
       /\ resp'.status \in {200, 500}
       /\ resp'.status = 500 <=>
            (calls'.fallback /\ FallbackRaises(req'.request.messages))
       /\ metrics'.errors - metrics.errors = (IF resp'.status = 500 THEN 1 ELSE 0)
       /\ (req'.outcome.raises /\ calls'.pipeline) =>
            (resp'.status = 500 <=> FallbackRaises(req'.request.messages))
       /\ \E latency \in Latencies :
            resp' = compress_messages(req'.request, req'.outcome, latency,
                                      ccr_store, [metrics EXCEPT !.errors = 0],
                                      HEADROOM_AVAILABLE, now).resp]_vars

\* after a request that failed, the next request was answered
C15_Witness ==
  /\ resp.op = "compress"
  /\ resp.status = 200
  /\ metrics.errors = 1
  /\ metrics.requests_total = 2
  /\ req.request = ReqOneBig
  /\ calls.fallback

\* C16: basic_compress never writes into its input. When a compress request
\* that ran the fallback is answered, the messages of the request, every
\* message and every block in them, hold the values they held before the
\* call; the objects written are the messages of the response.
C16_InputKept ==
  (req.op = "compress" /\ calls.fallback) =>
    /\ req.after.input = req.request.messages
    /\ req.after.raised = (resp.status = 500)
    /\ resp.status = 200 => req.after.output = resp.messages

\* a fallback that offloaded a block has answered: the response differs from
\* the request, whose messages are as they were
C16_Witness ==
  /\ req.op = "compress"
  /\ calls.fallback
  /\ resp.status = 200
  /\ resp.messages # req.request.messages
  /\ \E i \in 1..Len(UserBlocks(req.request.messages)) :
       BigToolResult(UserBlocks(req.request.messages)[i])
  /\ req.after.input = req.request.messages

\* the status the handler gives the request on an empty store
StatusAlone(request, outcome, m, available, t) ==
  compress_messages(request, outcome, CHOOSE latency \in Latencies : TRUE,
                    EmptyStore, m, available, t).resp.status

\* C17: the handlers have no suspension point, so requests that arrive
\* together are served one whole handler after the other, in any order. In
\* every such order, after every handler the store holds at most one entry
\* per payload and every key is the address of its payload; the status of a
\* compress request is the one it gets when it is served alone, whatever
\* other requests have put into the store or swept from it; a retrieve of an
\* address that is in the store and not expired, without a query, is
\* answered with the payload.
C17_Interleaved ==
  [][/\ \A k1, k2 \in DOMAIN ccr_store' :
          (ccr_store'[k1].content = ccr_store'[k2].content) <=> (k1 = k2)
     /\ \A k \in DOMAIN ccr_store' : generate_hash(ccr_store'[k].content) = k
     /\ CompressStep =>
          resp'.status = StatusAlone(req'.request, req'.outcome, metrics,
                                      HEADROOM_AVAILABLE, now)
     /\ (/\ RetrieveStep
         /\ req'.hash \in DOMAIN ccr_store
         /\ req'.hash \notin Expired(ccr_store, now)
         /\ ~Truthy(req'.query)) =>
          resp'.success /\ resp'.content = ccr_store[req'.hash].content
    ]_vars

\* a second request has offloaded the payload that another request had put
\* into the store: both were answered, one entry holds the payload
C17_Witness ==
  /\ req.op = "compress"
  /\ req.request = ReqOneBig
  /\ calls.fallback
  /\ resp.status = 200
  /\ metrics.requests_total = 2
  /\ metrics.ccr_stores = 2
  /\ metrics.errors = 0
  /\ DOMAIN ccr_store = {generate_hash(P5000)}

\* a user message whose content is a sequence of blocks
UserWithBlocks(msg) ==
  /\ "role" \in DOMAIN msg.d
  /\ msg.d["role"] = USER
  /\ "content" \in DOMAIN msg.d
  /\ msg.d["content"].t = "list"

\* the two mappings have the same fields, with the same values but for content
SameButContent(a, b) ==
  /\ DOMAIN a.d = DOMAIN b.d
  /\ \A k \in (DOMAIN a.d) \ {"content"} : a.d[k] = b.d[k]

\* the block written for a block of the input
BlockPassed(in, out) ==
  IF BigToolResult(in)
  THEN /\ out.t = "dict"
       /\ SameButContent(in, out)
       /\ out.d["content"] # in.d["content"]
  ELSE out = in

\* the message written for a message of the input
MessagePassed(in, out) ==
  IF UserWithBlocks(in)
  THEN /\ SameButContent(in, out)
       /\ out.d["content"].t = "list"
       /\ Len(out.d["content"].items) = Len(in.d["content"].items)
       /\ \A j \in 1..Len(in.d["content"].items) :
            BlockPassed(in.d["content"].items[j], out.d["content"].items[j])
  ELSE out = in

\* C18: the messages the fallback returns are as many as the messages of the
\* request, in the same order, with as many blocks in the same order; a
\* message that is not a user message with a sequence of blocks, and a block
\* that is not a tool_result with a string content of more than 2000
\* characters (one of exactly 2000 characters is not), equals the one of the
\* request; an offloaded block differs from the one of the request in its
\* content only.
C18_PassThrough ==
  FallbackAnswered =>
    /\ resp.messages.t = "list"
    /\ Len(resp.messages.items) = Len(req.request.messages.items)
    /\ \A i \in 1..Len(req.request.messages.items) :
         MessagePassed(req.request.messages.items[i], resp.messages.items[i])

\* the fallback has answered a request with an assistant message and a user
\* message of two tool results, of 2001 and of 2000 characters: the first
\* block came back changed, the second as it was
C18_Witness ==
  /\ FallbackAnswered
  /\ req.request = ReqBoundary
  /\ resp.messages.items[1] = req.request.messages.items[1]
  /\ resp.messages.items[2].d["content"].items[1] # ToolResult(T1, P2001)
  /\ resp.messages.items[2].d["content"].items[2] = ToolResult(T2, P2000)

\* C19: the outcome counters partition the compress requests. Every request
\* adds one to requests_total and one to exactly one of compressions_applied,
\* compressions_skipped and errors, so between requests requests_total is
\* their sum, also after a request whose pipeline result could not be
\* answered and which the fallback then served.
C19_Partition ==
  metrics.requests_total =
    metrics.compressions_applied + metrics.compressions_skipped + metrics.errors

\* what every entry of the store is
EntryOK(store, k, t) ==
  /\ store[k].content.t = "str"
  /\ Len(store[k].content.pre) + store[k].content.pad > 2000
  /\ k = generate_hash(store[k].content)
  /\ Len(k) = 12
  /\ store[k].timestamp <= t
  /\ "tool_name" \in DOMAIN store[k]
  /\ store[k].tool_name.t = "str"

\* C20: in every reachable state every entry of the store has a string
\* payload of more than 2000 characters, under the 12-character address
\* computed from that payload, with a timestamp that is not later than the
\* current time and with a label. An entry is added or rewritten only by a
\* compress request that ran the fallback; the skipped and the pipeline
\* paths, retrieve, analyze, health, metrics and track add none. An entry is
\* removed only by the sweep of retrieve or health, and only when expired.
C20_StoreContent ==
  /\ [](\A k \in DOMAIN ccr_store : EntryOK(ccr_store, k, now))
  /\ [][/\ (\E k \in DOMAIN ccr_store' :
               k \notin DOMAIN ccr_store \/ ccr_store'[k] # ccr_store[k])
            => (CompressStep /\ calls'.fallback)
        /\ (DOMAIN ccr_store \ DOMAIN ccr_store' # {})
            => /\ RetrieveStep \/ HealthStep
               /\ (DOMAIN ccr_store \ DOMAIN ccr_store') \subseteq Expired(ccr_store, now)
       ]_vars

\* the fallback has stored a payload at a time after the start, next to an
\* entry it stored earlier
C20_Witness ==
  /\ req.op = "compress"
  /\ calls.fallback
  /\ now > 0
  /\ \E k1, k2 \in DOMAIN ccr_store :
       /\ ccr_store[k1].timestamp = now
       /\ ccr_store[k2].timestamp < now

\* C21: the fallback never grows a conversation. Every answer of the
\* fallback reports the token counts of the request's messages and of the
\* messages it returns, with tokens_after <= tokens_before and tokens_saved =
\* tokens_before - tokens_after >= 0, and with tokens_after < tokens_before
\* exactly when it offloaded at least one block; when the pipeline is not
\* loaded, total_tokens_after <= total_tokens_before in every reachable
\* state.
C21_NeverGrows ==
  /\ FallbackAnswered =>
       /\ resp.stats.tokens_before = estimate_tokens(req.request.messages)
       /\ resp.stats.tokens_after = estimate_tokens(resp.messages)
       /\ resp.stats.tokens_after <= resp.stats.tokens_before
       /\ resp.stats.tokens_saved =
            resp.stats.tokens_before - resp.stats.tokens_after
       /\ resp.stats.tokens_saved >= 0
       /\ (resp.stats.tokens_after < resp.stats.tokens_before)
            <=> (PutPositions(req.request.messages) # {})
       /\ resp.compressed <=> (PutPositions(req.request.messages) # {})
  /\ ~HEADROOM_AVAILABLE =>
       metrics.total_tokens_after <= metrics.total_tokens_before

\* without a pipeline, after a request that offloaded nothing, the fallback
\* has answered a second request and offloaded a block: it reports fewer
\* tokens than it was given, and the running totals hold both requests
C21_Witness ==
  /\ ~HEADROOM_AVAILABLE
  /\ FallbackAnswered
  /\ PutPositions(req.request.messages) # {}
  /\ resp.stats.tokens_after < resp.stats.tokens_before
  /\ metrics.requests_total = 2
  /\ metrics.compressions_skipped = 1
  /\ metrics.total_tokens_after > resp.stats.tokens_after
  /\ metrics.total_tokens_after < metrics.total_tokens_before

====
